---------------------------- MODULE Spec2Model ----------------------------
(***************************************************************************)
(* The ProductScraper component (src/src/components/ProductScraper.tsx):   *)
(* its React state (url, loading, productData), the validator, the        *)
(* handleScrape handler with its awaited POST to /scrape, the two export   *)
(* handlers, and the gating of the rendered controls.                      *)
(*                                                                         *)
(* Text is a sequence of one-character strings, so that includes, trim,    *)
(* replace and join are computed character by character as the code does. *)
(* A JavaScript value is a record tagged by its type in field t.           *)
(***************************************************************************)
EXTENDS Integers, Sequences, FiniteSets, TLC

\* ------------------------------------------------------------------ bounds

\* A url typed into the input is a concatenation of at most MaxParts pieces.
MaxParts == 2
\* Requests that may be outstanding at once in the model.
MaxInFlight == 2
\* Longest variants list of an exported record.
MaxVariants == 2
\* Longest image_urls list of an exported record.
MaxImages == 1

\* ------------------------------------------------------------------- text

AMAZON == <<"a", "m", "a", "z", "o", "n", ".">>
DP == <<"/", "d", "p", "/">>
GP == <<"/", "g", "p", "/">>
Whitespace == {" ", "\t", "\n"}

\* The pieces urls are built from: the three markers, and near misses of them.
Pieces ==
    { AMAZON, DP, GP, <<" ">>, <<"x">>,
      <<"a", "m", "a", "z", "o", "n">>, <<"/", "d", "p">> }

RECURSIVE TextsOfParts(_)
TextsOfParts(n) ==
    IF n = 0 THEN {<<>>}
    ELSE LET S == TextsOfParts(n - 1) IN S \cup {s \o p : s \in S, p \in Pieces}

Texts == TextsOfParts(MaxParts)

\* String.prototype.indexOf, 1-based; 0 when sub does not occur from i on.
RECURSIVE IndexOfFrom(_, _, _)
IndexOfFrom(s, sub, i) ==
    IF i + Len(sub) - 1 > Len(s) THEN 0
    ELSE IF SubSeq(s, i, i + Len(sub) - 1) = sub THEN i
    ELSE IndexOfFrom(s, sub, i + 1)

includes(s, sub) == IndexOfFrom(s, sub, 1) # 0

RECURSIVE trimStart(_)
trimStart(s) ==
    IF s # <<>> /\ Head(s) \in Whitespace THEN trimStart(Tail(s)) ELSE s

RECURSIVE trimEnd(_)
trimEnd(s) ==
    IF s # <<>> /\ s[Len(s)] \in Whitespace
    THEN trimEnd(SubSeq(s, 1, Len(s) - 1)) ELSE s

trim(s) == trimEnd(trimStart(s))

\* replace(/"/g, '""')
RECURSIVE escapeQuotes(_)
escapeQuotes(s) ==
    IF s = <<>> THEN <<>>
    ELSE (IF Head(s) = "\"" THEN <<"\"", "\"">> ELSE <<Head(s)>>)
         \o escapeQuotes(Tail(s))

\* Array.prototype.join over an array of texts.
RECURSIVE join(_, _)
join(a, sep) ==
    IF a = <<>> THEN <<>>
    ELSE IF Len(a) = 1 THEN a[1]
    ELSE a[1] \o sep \o join(Tail(a), sep)

\* `"${d}"`
quote(d) == <<"\"">> \o d \o <<"\"">>

\* -------------------------------------------------------- JavaScript values

Undefined == [t |-> "undefined"]
Null == [t |-> "null"]
Str(s) == [t |-> "string", v |-> s]
Arr(a) == [t |-> "array", v |-> a]
Price(o, d) == [t |-> "object", original |-> o, discounted |-> d]
Product(n, p, d, vs, is) ==
    [t |-> "object", product_name |-> n, price |-> p, description |-> d,
     variants |-> vs, image_urls |-> is]

Truthy(x) ==
    /\ x.t \notin {"undefined", "null"}
    /\ (x.t = "string" => x.v # <<>>)

\* String(x) as a template literal or join computes it.
ToText(x) == IF x.t = "string" THEN x.v ELSE <<"u", "n", "d", "e", "f", "i", "n", "e", "d">>

\* interface ProductData
ProductData(x) ==
    /\ x.t = "object"
    /\ x.product_name.t = "string"
    /\ x.price.t = "object"
    /\ x.price.original.t = "string"
    /\ x.price.discounted.t \in {"string", "undefined"}
    /\ x.description.t = "string"
    /\ x.variants.t = "array"
    /\ x.image_urls.t = "array"


\* Lines 222 and 257 read .length of variants and image_urls, line 212 reads
\* price.original: rendering a truthy productData without them throws.
RenderThrows(pd) ==
    /\ Truthy(pd)
    /\ \/ pd.price.t # "object"
       \/ pd.variants.t # "array"
       \/ pd.image_urls.t # "array"

\* ---------------------------------------------------------------- exports

H1 == <<"P", "r", "o", "d", "u", "c", "t", " ", "N", "a", "m", "e">>
H2 == <<"O", "r", "i", "g", "i", "n", "a", "l", " ", "P", "r", "i", "c", "e">>
H3 == <<"D", "i", "s", "c", "o", "u", "n", "t", "e", "d", " ", "P", "r", "i", "c", "e">>
H4 == <<"D", "e", "s", "c", "r", "i", "p", "t", "i", "o", "n">>
H5 == <<"V", "a", "r", "i", "a", "n", "t", "s">>
H6 == <<"I", "m", "a", "g", "e", " ", "U", "R", "L", "s">>
headers == <<H1, H2, H3, H4, H5, H6>>
SEP == <<";", " ">>

NoFile == [kind |-> "none"]
Threw == [kind |-> "threw"]

\* productData.price.discounted || ''
discountedOrEmpty(pd) ==
    IF Truthy(pd.price.discounted) THEN ToText(pd.price.discounted) ELSE <<>>

\* The description field of the CSV data row (line 81).
csvDescription(pd) == escapeQuotes(pd.description.v)

\* The data array of exportToCSV (lines 77-84).
csvData(pd) ==
    << ToText(pd.product_name),
       ToText(pd.price.original),
       discountedOrEmpty(pd),
       csvDescription(pd),
       join(pd.variants.v, SEP),
       join(pd.image_urls.v, SEP) >>

csvLine(fields) == join([i \in 1..Len(fields) |-> quote(fields[i])], <<",">>)

csvContent(pd) == join(<<csvLine(headers), csvLine(csvData(pd))>>, <<"\n">>)

\* What the handler hands to saveAs: nothing when it returns at line 73 or
\* throws on a missing member before reaching line 93.
exportToCSV(pd) ==
    IF ~Truthy(pd) THEN NoFile
    ELSE IF \/ pd.price.t # "object"
            \/ pd.description.t # "string"
            \/ pd.variants.t # "array"
            \/ pd.image_urls.t # "array"
    THEN Threw
    ELSE [kind |-> "file", name |-> "amazon-product.csv",
          type |-> "text/csv;charset=utf-8;", content |-> csvContent(pd)]

\* The one row given to json_to_sheet (lines 99-106); a cell is the value.
excelRow(pd) ==
    << pd.product_name,
       pd.price.original,
       Str(discountedOrEmpty(pd)),
       pd.description,
       Str(join(pd.variants.v, SEP)),
       Str(join(pd.image_urls.v, SEP)) >>

exportToExcel(pd) ==
    IF ~Truthy(pd) THEN NoFile
    ELSE IF \/ pd.price.t # "object"
            \/ pd.variants.t # "array"
            \/ pd.image_urls.t # "array"
    THEN Threw
    ELSE [kind |-> "file", name |-> "amazon-product.xlsx",
          sheets |-> << [name |-> "Product Data",
                         rows |-> << [i \in 1..6 |-> Str(headers[i])],
                                     excelRow(pd) >>] >>]

\* ------------------------------------------------------------------ state

VARIABLES
    url,          \* useState('') of line 24
    loading,      \* useState(false) of line 25
    productData,  \* useState(null) of line 26
    mounted,      \* the component is rendered (no render has thrown)
    inFlight,     \* the urls of the POSTs to /scrape not yet settled
    outcome,      \* how the last settled scrape ended: "none", "ok", "err"
    everOk,       \* some scrape has resolved
    op,           \* the handler that ran in the last step
    resp,         \* the response the last step handled, if it handled one
    toast,        \* the notification the last step raised, if any
    saved         \* what the last step handed to the file-save sink

vars == <<url, loading, productData, mounted, inFlight, outcome, everOk,
          op, resp, toast, saved>>

NoToast == "none"
NoResponse == [kind |-> "none"]
Resolved(data) == [kind |-> "ok", data |-> data]
Rejected == [kind |-> "error"]

\* The session status of the spec, read off the component's state.
Status ==
    IF loading THEN "Pending"
    ELSE IF outcome = "ok" THEN "Succeeded"
    ELSE IF outcome = "err" THEN "Failed"
    ELSE "Idle"

\* ---------------------------------------------------------------- payloads

G1 ==
    Product(Str(<<"W">>), Price(Str(<<"1">>), Undefined), Str(<<>>),
            Arr(<<>>), Arr(<<>>))
G2 ==
    Product(Str(<<"V">>), Price(Str(<<"2">>), Str(<<"1">>)), Str(<<"d">>),
            Arr(<< <<"R">>, <<"B">> >>), Arr(<< <<"u">> >>))
MissingVariants ==
    Product(Str(<<"W">>), Price(Str(<<"1">>), Undefined), Str(<<>>),
            Undefined, Arr(<<>>))
MissingOriginal ==
    Product(Str(<<"W">>), Price(Undefined, Undefined), Str(<<>>),
            Arr(<<>>), Arr(<<>>))

\* What a 2xx answer of the endpoint may carry as response.data.
Payloads == {G1, G2, MissingVariants, MissingOriginal, Null}

\* ---------------------------------------------------------------- handlers

\* The validator with the '/gp/' alternative dropped.
validateAmazonUrl_DpOnly(u) == includes(u, AMAZON) /\ includes(u, DP)

validateAmazonUrl(u) ==
    includes(u, AMAZON) /\ (includes(u, DP) \/ includes(u, GP))

\* onChange={(e) => setUrl(e.target.value)}
setUrl(text) ==
    /\ mounted
    /\ url' = text
    /\ op' = "setUrl"
    /\ resp' = NoResponse
    /\ toast' = NoToast
    /\ saved' = NoFile
    /\ UNCHANGED <<loading, productData, mounted, inFlight, outcome, everOk>>

\* handleScrape with the return of line 49 forgotten: an unacceptable url
\* falls through to the request.
handleScrape_NoReturn ==
    /\ mounted
    /\ Len(inFlight) < MaxInFlight
    /\ op' = "handleScrape"
    /\ resp' = NoResponse
    /\ saved' = NoFile
    /\ IF trim(url) = <<>>
       THEN /\ toast' = "URL Required"
            /\ UNCHANGED <<loading, inFlight>>
       ELSE /\ toast' = (IF validateAmazonUrl(url) THEN NoToast ELSE "Invalid URL")
            /\ loading' = TRUE
            /\ inFlight' = Append(inFlight, url)
    /\ UNCHANGED <<url, productData, mounted, outcome, everOk>>

\* handleScrape up to its await (lines 33-54).
handleScrape ==
    /\ mounted
    /\ Len(inFlight) < MaxInFlight
    /\ op' = "handleScrape"
    /\ resp' = NoResponse
    /\ saved' = NoFile
    /\ IF trim(url) = <<>>
       THEN /\ toast' = "URL Required"
            /\ UNCHANGED <<loading, inFlight>>
       ELSE IF ~validateAmazonUrl(url)
       THEN /\ toast' = "Invalid URL"
            /\ UNCHANGED <<loading, inFlight>>
       ELSE /\ loading' = TRUE
            /\ inFlight' = Append(inFlight, url)
            /\ toast' = NoToast
    /\ UNCHANGED <<url, productData, mounted, outcome, everOk>>

Without(s, i) == SubSeq(s, 1, i - 1) \o SubSeq(s, i + 1, Len(s))

\* handleScrape after the POST resolves (lines 55-59, 67-69), and the render
\* of the new state. The setters of an unmounted component do nothing.
ResponseSuccess(i, data) ==
    /\ i \in 1..Len(inFlight)
    /\ inFlight' = Without(inFlight, i)
    /\ op' = "response"
    /\ resp' = Resolved(data)
    /\ toast' = "Success!"
    /\ saved' = NoFile
    /\ outcome' = "ok"
    /\ everOk' = TRUE
    /\ IF mounted
       THEN /\ productData' = data
            /\ loading' = FALSE
            /\ mounted' = ~RenderThrows(data)
       ELSE UNCHANGED <<productData, loading, mounted>>
    /\ UNCHANGED url

\* The catch branch clearing the record.
ResponseFailure_ClearsRecord(i) ==
    /\ i \in 1..Len(inFlight)
    /\ inFlight' = Without(inFlight, i)
    /\ op' = "response"
    /\ resp' = Rejected
    /\ toast' = "Scraping Failed"
    /\ saved' = NoFile
    /\ outcome' = "err"
    /\ productData' = Null
    /\ IF mounted
       THEN loading' = FALSE
       ELSE UNCHANGED loading
    /\ UNCHANGED <<url, mounted, everOk>>

\* handleScrape after the POST rejects (lines 60-69).
ResponseFailure(i) ==
    /\ i \in 1..Len(inFlight)
    /\ inFlight' = Without(inFlight, i)
    /\ op' = "response"
    /\ resp' = Rejected
    /\ toast' = "Scraping Failed"
    /\ saved' = NoFile
    /\ outcome' = "err"
    /\ IF mounted
       THEN loading' = FALSE
       ELSE UNCHANGED loading
    /\ UNCHANGED <<url, productData, mounted, everOk>>

ExportToCSV ==
    /\ mounted
    /\ op' = "exportToCSV"
    /\ resp' = NoResponse
    /\ toast' = NoToast
    /\ saved' = exportToCSV(productData)
    /\ UNCHANGED <<url, loading, productData, mounted, inFlight, outcome, everOk>>

ExportToExcel ==
    /\ mounted
    /\ op' = "exportToExcel"
    /\ resp' = NoResponse
    /\ toast' = NoToast
    /\ saved' = exportToExcel(productData)
    /\ UNCHANGED <<url, loading, productData, mounted, inFlight, outcome, everOk>>

\* ------------------------------------------------------ rendered controls

\* The input without its disabled attribute.
InputDisabled_Never == FALSE
\* <Input disabled={loading}>
InputDisabled == loading
\* <Button disabled={loading || !url.trim()}>
ButtonDisabled == loading \/ trim(url) = <<>>
\* The export buttons rendered unconditionally.
ExportRendered_Always == TRUE
\* {productData && ( ... export buttons ... )}
ExportRendered == Truthy(productData)

InputChange(text) == ~InputDisabled /\ setUrl(text)
ClickScrape == ~ButtonDisabled /\ handleScrape
ClickExportCSV == ExportRendered /\ ExportToCSV
ClickExportExcel == ExportRendered /\ ExportToExcel

\* ---------------------------------------------------------- specifications

\* The state hooks initialised with a sample record left in place.
Init_SampleRecord ==
    /\ url = <<>>
    /\ loading = FALSE
    /\ productData = G1
    /\ mounted = TRUE
    /\ inFlight = <<>>
    /\ outcome = "none"
    /\ everOk = FALSE
    /\ op = "init"
    /\ resp = NoResponse
    /\ toast = NoToast
    /\ saved = NoFile

Init ==
    /\ url = <<>>
    /\ loading = FALSE
    /\ productData = Null
    /\ mounted = TRUE
    /\ inFlight = <<>>
    /\ outcome = "none"
    /\ everOk = FALSE
    /\ op = "init"
    /\ resp = NoResponse
    /\ toast = NoToast
    /\ saved = NoFile

\* The component driven through its rendered controls and by the endpoint.
Next ==
    \/ \E text \in Texts : InputChange(text)
    \/ ClickScrape
    \/ ClickExportCSV
    \/ ClickExportExcel
    \/ \E i \in 1..MaxInFlight, data \in Payloads : ResponseSuccess(i, data)
    \/ \E i \in 1..MaxInFlight : ResponseFailure(i)

Spec == Init /\ [][Next]_vars

\* The handler invoked on any input text and in any state of the session,
\* whether or not the submit control would let the click through.
\* The text was typed in a fresh session, or after an earlier scrape settled.
EarlierScrapes ==
    { [record |-> Null, outcome |-> "none", everOk |-> FALSE],
      [record |-> Null, outcome |-> "err", everOk |-> FALSE],
      [record |-> G1, outcome |-> "ok", everOk |-> TRUE],
      [record |-> G2, outcome |-> "err", everOk |-> TRUE] }

InitHandler ==
    /\ url \in Texts
    /\ loading = FALSE
    /\ \E e \in EarlierScrapes :
          /\ productData = e.record
          /\ outcome = e.outcome
          /\ everOk = e.everOk
    /\ mounted = TRUE
    /\ inFlight = <<>>
    /\ op = "setUrl"
    /\ resp = NoResponse
    /\ toast = NoToast
    /\ saved = NoFile

NextHandler ==
    \/ handleScrape
    \/ \E i \in 1..MaxInFlight, data \in Payloads : ResponseSuccess(i, data)
    \/ \E i \in 1..MaxInFlight : ResponseFailure(i)

SpecHandler == InitHandler /\ [][NextHandler]_vars

\* The export handlers applied to the records a successful scrape may have
\* stored; a record here always renders.
RECURSIVE SeqsUpTo(_, _)
SeqsUpTo(S, n) ==
    IF n = 0 THEN {<<>>}
    ELSE LET R == SeqsUpTo(S, n - 1) IN R \cup {Append(r, x) : r \in R, x \in S}

ExportRecords ==
    { Product(Str(n), Price(Str(<<"1">>), d), desc, Arr(vs), Arr(is)) :
        n \in {<<"W">>, <<"W", "\"">>},
        d \in {Undefined, Str(<<>>), Str(<<"2">>)},
        desc \in {Str(<<>>), Str(<<"d", "\"", "e">>), Undefined},
        vs \in SeqsUpTo({<<"R">>, <<"B", "\"">>}, MaxVariants),
        is \in SeqsUpTo({<<"u">>}, MaxImages) }

InitExport ==
    /\ url = AMAZON \o DP
    /\ loading = FALSE
    /\ productData \in ExportRecords
    /\ mounted = TRUE
    /\ inFlight = <<>>
    /\ outcome = "ok"
    /\ everOk = TRUE
    /\ op = "response"
    /\ resp = Resolved(productData)
    /\ toast = "Success!"
    /\ saved = NoFile

NextExport ==
    \/ ClickExportCSV
    \/ ClickExportExcel

SpecExport == InitExport /\ [][NextExport]_vars

\* ------------------------------------------------------------------ claims

\* What the claims say of a text, stated by position rather than by search.
Contains(s, sub) ==
    \E i \in 1..(Len(s) - Len(sub) + 1) : SubSeq(s, i, i + Len(sub) - 1) = sub
IsBlank(s) == \A i \in 1..Len(s) : s[i] \in Whitespace
AcceptableUrl(s) ==
    ~IsBlank(s) /\ Contains(s, AMAZON) /\ (Contains(s, DP) \/ Contains(s, GP))

RecordPresent == productData # Null
Exports == {"exportToCSV", "exportToExcel"}

\* C1: at most one scrape request is outstanding in every reachable state,
\* also when handleScrape is invoked while the session is Pending.
C1_AtMostOneInFlight == Len(inFlight) <= 1

\* C2: the record changes only in a step that handles a resolved response,
\* to that response's payload; an accepted submit moves to Pending and keeps
\* the record; a rejected response keeps the record and moves to Failed.
C2_RecordReplacedOnlyBySuccess ==
    [][ /\ productData' # productData =>
              resp'.kind = "ok" /\ productData' = resp'.data
        /\ (op' = "handleScrape" /\ Len(inFlight') > Len(inFlight)) =>
              productData' = productData /\ Status' = "Pending"
        /\ (op' = "response" /\ resp' = Rejected) =>
              productData' = productData /\ Status' = "Failed"
      ]_vars

\* A failure handled after an earlier success: Failed, the record still there.
C2_Witness ==
    /\ op = "response"
    /\ resp = Rejected
    /\ Status = "Failed"
    /\ productData \in {G1, G2}

\* C3: a resolved response whose payload does not match ProductData is
\* handled as a failure: Failed, record unchanged, the failure notification.
C3_MalformedPayloadIsFailure ==
    [][ (op' = "response" /\ resp'.kind = "ok" /\ ~ProductData(resp'.data)) =>
            /\ Status' = "Failed"
            /\ productData' = productData
            /\ toast' = "Scraping Failed"
      ]_vars

\* C4: a submit of a blank or unacceptable url raises one rejection and
\* changes nothing else: no request, loading, status and record as before.
C4_RejectedSubmitIsNoOp ==
    [][ (op' = "handleScrape" /\ ~AcceptableUrl(url)) =>
            /\ toast' = (IF IsBlank(url) THEN "URL Required" ELSE "Invalid URL")
            /\ inFlight' = inFlight
            /\ loading' = loading
            /\ Status' = Status
            /\ productData' = productData
      ]_vars

\* A whitespace-only url was submitted and rejected.
C4_Witness ==
    /\ op = "handleScrape"
    /\ url # <<>>
    /\ IsBlank(url)
    /\ toast = "URL Required"
    /\ ~loading

C6_RecordOnlyWhenSucceeded == RecordPresent => Status = "Succeeded"

\* C6 amended: a record is present only after some scrape has succeeded,
\* and never while the status is Idle.
C6_RecordOnlyAfterSuccess ==
    /\ RecordPresent => everOk
    /\ Status = "Idle" => ~RecordPresent

\* The record of an earlier success is still there while Pending.
C6_Witness == RecordPresent /\ Status = "Pending"

\* C7 as stated: an export saves a file only when the status is Succeeded.
C7_ExportOnlyWhenSucceeded ==
    (op \in Exports /\ saved.kind = "file") => Status = "Succeeded"

\* C7 amended: an export can be triggered only while a record is present,
\* saves a file only from a record, raises no notification and leaves the
\* session as it was; invoked without a record the handlers return nothing.
C7_ExportGatedOnRecord ==
    /\ [][ op' \in Exports =>
              /\ RecordPresent
              /\ saved'.kind = "file" => Truthy(productData)
              /\ toast' = NoToast
              /\ UNCHANGED <<url, loading, productData, inFlight, outcome>>
         ]_vars
    /\ [](exportToCSV(Null) = NoFile /\ exportToExcel(Null) = NoFile)

\* A file was exported from the stale record after a later scrape failed.
C7_Witness ==
    /\ op \in Exports
    /\ saved.kind = "file"
    /\ Status = "Failed"

\* A line of quoted, comma-separated fields read back: mode "start" before a
\* field, "in" inside its quotes, "closed" after a quote that may end it.
RECURSIVE ReadFields(_, _, _, _, _)
ReadFields(s, i, mode, cur, acc) ==
    IF i > Len(s)
    THEN [ok |-> mode = "closed", fields |-> Append(acc, cur)]
    ELSE IF mode = "start"
    THEN IF s[i] = "\"" THEN ReadFields(s, i + 1, "in", <<>>, acc)
         ELSE [ok |-> FALSE, fields |-> acc]
    ELSE IF mode = "in"
    THEN IF s[i] = "\"" THEN ReadFields(s, i + 1, "closed", cur, acc)
         ELSE ReadFields(s, i + 1, "in", Append(cur, s[i]), acc)
    ELSE IF s[i] = "\"" THEN ReadFields(s, i + 1, "in", Append(cur, "\""), acc)
    ELSE IF s[i] = "," THEN ReadFields(s, i + 1, "start", <<>>, Append(acc, cur))
    ELSE [ok |-> FALSE, fields |-> acc]

\* The six values of a record in the header's order, before any quoting.
FieldValues(pd) ==
    << pd.product_name.v,
       pd.price.original.v,
       IF pd.price.discounted.t = "string" THEN pd.price.discounted.v ELSE <<>>,
       pd.description.v,
       join(pd.variants.v, SEP),
       join(pd.image_urls.v, SEP) >>

DataLine(content) ==
    SubSeq(content, Len(csvLine(headers)) + 2, Len(content))

\* C8: the data line of the CSV export quotes each of the six fields with
\* every inner quote doubled, and reads back as the record's six values.
C8_EveryFieldEscaped ==
    (op = "exportToCSV" /\ ProductData(productData)) =>
        /\ saved.kind = "file"
        /\ DataLine(saved.content) =
              csvLine([i \in 1..6 |-> escapeQuotes(FieldValues(productData)[i])])
        /\ ReadFields(DataLine(saved.content), 1, "start", <<>>, <<>>) =
              [ok |-> TRUE, fields |-> FieldValues(productData)]

\* C9: a submit issues a request for the url exactly when the url is not
\* blank and contains 'amazon.' and one of '/dp/' and '/gp/'.
C9_AcceptedExactlyWhenValid ==
    [][ op' = "handleScrape" =>
            (inFlight' = Append(inFlight, url) /\ loading') <=> AcceptableUrl(url)
      ]_vars

\* An accepted url whose path marker comes before the domain fragment.
C9_Witness ==
    /\ op = "handleScrape"
    /\ inFlight = <<url>>
    /\ Contains(url, GP)
    /\ IndexOfFrom(url, GP, 1) < IndexOfFrom(url, AMAZON, 1)

\* C10: once a scrape has succeeded or failed the user can submit again: the
\* submit control takes a click, or the input takes an acceptable url.
C10_RetryAlwaysEnabled ==
    Status \in {"Succeeded", "Failed"} =>
        ENABLED (ClickScrape \/ InputChange(AMAZON \o DP))

=============================================================================
